---- MODULE Spec2Model ----
(***************************************************************************)
(* goEmail (src/goEmail.go): an Email value with its append operations,    *)
(* the header folder foldString, the formatter Format, the identifier      *)
(* MessageID and Send.                                                     *)
(*                                                                         *)
(* A Go string is modelled as a sequence of atoms.  An atom is a one-      *)
(* character string, or the symbolic name of a SHA-1 digest, which stands  *)
(* for the 40 hexadecimal digits fmt.Sprintf("%x", ...) prints for it.     *)
(***************************************************************************)
EXTENDS Integers, Sequences, FiniteSets, TLC

VARIABLES
    email,          \* the Email struct (goEmail.go:16-21)
    last,           \* the most recent call on the Email and what it returned
    args,           \* history: the arguments each add operation was called with
    maxLength,      \* foldString: parameter maxLength
    prefix,         \* foldString: parameter prefix
    str,            \* foldString: parameter s
    words,          \* foldString: the words the range loop has not visited yet
    foldedBuffer,   \* foldString: local foldedBuffer
    lineBuffer,     \* foldString: local lineBuffer
    lineLength,     \* foldString: local lineLength
    pc,             \* foldString: position ("idle", "loop", "done")
    ret             \* foldString: returned string

vars == <<email, last, args, maxLength, prefix, str, words,
          foldedBuffer, lineBuffer, lineLength, pc, ret>>

emailVars == <<email, last, args>>
foldVars == <<maxLength, prefix, str, words, foldedBuffer, lineBuffer, lineLength, pc, ret>>

(***************************************************************************)
(* Bounds of the model.                                                    *)
(***************************************************************************)
MaxItems == 2       \* recipients, cc, bcc and body parts of one Email, in total
MaxValueLen == 5    \* length of the value handed to foldString on its own
MaxFoldWidth == 5   \* largest maxLength handed to foldString on its own

(***************************************************************************)
(* Program constants.                                                      *)
(***************************************************************************)
HeaderWidth == 78   \* addHeader's maxLength
DigestHexLen == 40  \* hex digits of a SHA-1 digest

(***************************************************************************)
(* Strings.                                                                *)
(***************************************************************************)
CRLF == <<"\r", "\n">>
SP == <<" ">>

\* len() of one atom: a character is one byte, a digest is 40 hex digits
AtomLen(a) == IF Len(a) = 1 THEN 1 ELSE DigestHexLen

\* len(s)
StrLen(w) ==
    Len(w) + (DigestHexLen - 1) * Cardinality({i \in DOMAIN w : AtomLen(w[i]) # 1})

RECURSIVE Concat(_)
\* concatenation of a sequence of strings
Concat(ss) == IF ss = <<>> THEN <<>> ELSE Head(ss) \o Concat(Tail(ss))

RECURSIVE Join(_, _)
\* strings.Join(ss, sep)
Join(ss, sep) ==
    IF ss = <<>> THEN <<>>
    ELSE IF Len(ss) = 1 THEN ss[1]
    ELSE ss[1] \o sep \o Join(Tail(ss), sep)

\* least element of a non-empty set of integers
Min(P) == CHOOSE x \in P : \A y \in P : x <= y

RECURSIVE Pieces(_, _, _, _)
\* the pieces of w[from..] between the separators of length k that start at
\* the positions in P
Pieces(w, P, k, from) ==
    IF P = {} THEN <<SubSeq(w, from, Len(w))>>
    ELSE LET j == Min(P)
         IN  <<SubSeq(w, from, j - 1)>> \o Pieces(w, P \ {j}, k, j + k)

\* strings.Split(s, " ")
Split(w) == Pieces(w, {j \in 1..Len(w) : w[j] = " "}, 1, 1)

(***************************************************************************)
(* String literals of Format and addBody.                                  *)
(***************************************************************************)
FieldTo == <<"T", "o">>
FieldCc == <<"C", "c">>
FieldBcc == <<"B", "c", "c">>
FieldFrom == <<"F", "r", "o", "m">>
FieldSubject == <<"S", "u", "b", "j", "e", "c", "t">>
FieldDate == <<"D", "a", "t", "e">>
FieldContentType == <<"C", "o", "n", "t", "e", "n", "t", "-", "T", "y", "p", "e">>
FieldMimeVersion == <<"M", "I", "M", "E", "-", "V", "e", "r", "s", "i", "o", "n">>
FieldContentTransferEncoding ==
    <<"C", "o", "n", "t", "e", "n", "t", "-", "T", "r", "a", "n", "s", "f",
      "e", "r", "-", "E", "n", "c", "o", "d", "i", "n", "g">>
\* "multipart/alternative; boundary=\"" of the top-level Content-Type value
MultipartPrefix ==
    <<"m", "u", "l", "t", "i", "p", "a", "r", "t", "/", "a", "l", "t", "e",
      "r", "n", "a", "t", "i", "v", "e", ";", " ", "b", "o", "u", "n", "d",
      "a", "r", "y", "=", "\"">>
MimeVersion == <<"1", ".", "0">>

(***************************************************************************)
(* foldString (goEmail.go:126-151).                                        *)
(***************************************************************************)
\* foldIter with the line buffer reset before it is written out
foldIter_resetFirst(maxLen, st, word) ==
    LET wordLength == StrLen(word) IN
    IF wordLength + st.lineLength + 1 <= maxLen
    THEN [foldedBuffer |-> st.foldedBuffer,
          lineBuffer   |-> st.lineBuffer \o word \o SP,
          lineLength   |-> st.lineLength + wordLength + 1]
    ELSE [foldedBuffer |-> st.foldedBuffer \o CRLF \o SP,
          lineBuffer   |-> word \o SP,
          lineLength   |-> wordLength + 1]

\* foldIter with the comparison strict
foldIter_strict(maxLen, st, word) ==
    LET wordLength == StrLen(word) IN
    IF wordLength + st.lineLength + 1 < maxLen
    THEN [foldedBuffer |-> st.foldedBuffer,
          lineBuffer   |-> st.lineBuffer \o word \o SP,
          lineLength   |-> st.lineLength + wordLength + 1]
    ELSE [foldedBuffer |-> st.foldedBuffer \o st.lineBuffer \o CRLF \o SP,
          lineBuffer   |-> word \o SP,
          lineLength   |-> wordLength + 1]

\* one pass of the range loop, the locals before it given as a record
foldIter(maxLen, st, word) ==
    LET wordLength == StrLen(word) IN
    IF wordLength + st.lineLength + 1 <= maxLen
    THEN [foldedBuffer |-> st.foldedBuffer,
          lineBuffer   |-> st.lineBuffer \o word \o SP,
          lineLength   |-> st.lineLength + wordLength + 1]
    ELSE [foldedBuffer |-> st.foldedBuffer \o st.lineBuffer \o CRLF \o SP,
          lineBuffer   |-> word \o SP,
          lineLength   |-> wordLength + 1]

RECURSIVE foldLoop(_, _, _)
\* the range loop over the words
foldLoop(maxLen, st, ws) ==
    IF ws = <<>> THEN st
    ELSE foldLoop(maxLen, foldIter(maxLen, st, Head(ws)), Tail(ws))

\* the locals before the loop
foldStart(pre) ==
    [foldedBuffer |-> <<>>, lineBuffer |-> pre, lineLength |-> StrLen(pre)]

\* what is returned after the loop
foldEnd(st) == st.foldedBuffer \o st.lineBuffer \o CRLF

foldString(maxLen, pre, w) ==
    foldEnd(foldLoop(maxLen, foldStart(pre), Split(w)))

(***************************************************************************)
(* foldString on its own, one step per loop pass.                          *)
(***************************************************************************)
FoldAlphabet == {"a", "b", " "}
FoldPrefixes == {<<>>, <<"T", ":">>, <<"T", ":", " ">>}
FoldWidths == 3..MaxFoldWidth

RECURSIVE SeqsUpTo(_, _)
\* all sequences over S of length at most n
SeqsUpTo(S, n) ==
    IF n = 0 THEN {<<>>}
    ELSE LET shorter == SeqsUpTo(S, n-1)
         IN  shorter \cup {Append(w, c) : w \in {x \in shorter : Len(x) = n-1}, c \in S}

FoldValues == SeqsUpTo(FoldAlphabet, MaxValueLen)

FoldIdle ==
    /\ maxLength = 0 /\ prefix = <<>> /\ str = <<>> /\ words = <<>>
    /\ foldedBuffer = <<>> /\ lineBuffer = <<>> /\ lineLength = 0
    /\ pc = "idle" /\ ret = <<>>

\* entry of foldString: lines 129-131 and the Split of line 133
FoldCall ==
    /\ maxLength \in FoldWidths
    /\ prefix \in FoldPrefixes
    /\ str \in FoldValues
    /\ words = Split(str)
    /\ foldedBuffer = foldStart(prefix).foldedBuffer
    /\ lineBuffer = foldStart(prefix).lineBuffer
    /\ lineLength = foldStart(prefix).lineLength
    /\ pc = "loop"
    /\ ret = <<>>

\* one pass of the loop, lines 133-147
FoldStep ==
    /\ pc = "loop"
    /\ words # <<>>
    /\ LET st == foldIter(maxLength,
                          [foldedBuffer |-> foldedBuffer, lineBuffer |-> lineBuffer,
                           lineLength |-> lineLength],
                          Head(words))
       IN  /\ foldedBuffer' = st.foldedBuffer
           /\ lineBuffer' = st.lineBuffer
           /\ lineLength' = st.lineLength
    /\ words' = Tail(words)
    /\ UNCHANGED <<maxLength, prefix, str, pc, ret>>
    /\ UNCHANGED emailVars

\* after the loop, lines 148-150
FoldReturn ==
    /\ pc = "loop"
    /\ words = <<>>
    /\ ret' = foldEnd([foldedBuffer |-> foldedBuffer, lineBuffer |-> lineBuffer,
                       lineLength |-> lineLength])
    /\ pc' = "done"
    /\ UNCHANGED <<maxLength, prefix, str, words, foldedBuffer, lineBuffer, lineLength>>
    /\ UNCHANGED emailVars

(***************************************************************************)
(* Transfer encoders (goEmail.go:34-40).  An encoder is a record: its      *)
(* label is what TransferEncodingType returns, name selects what Encode    *)
(* does, repr is how fmt prints the interface value held by Email.encoder  *)
(* (a pointer, printed as its address).                                    *)
(***************************************************************************)
QuotedPrintable ==
    [name  |-> "quotedPrintable",
     label |-> <<"q", "u", "o", "t", "e", "d", "-",
                 "p", "r", "i", "n", "t", "a", "b", "l", "e">>,
     repr  |-> <<"0", "x", "c", "0", "0", "0", "0", "1", "0", "0", "0", "0">>]
SevenBit ==
    [name  |-> "sevenBit",
     label |-> <<"7", "b", "i", "t">>,
     repr  |-> <<"0", "x", "c", "0", "0", "0", "0", "1", "0", "0", "1", "0">>]
Encoders == {QuotedPrintable, SevenBit}

RECURSIVE QPEncode(_)
\* quoted-printable of printable ASCII on one short line: "=" becomes "=3D"
QPEncode(src) ==
    IF src = <<>> THEN <<>>
    ELSE (IF Head(src) = "=" THEN <<"=", "3", "D">> ELSE <<Head(src)>>) \o QPEncode(Tail(src))

\* encoder.Encode(src)
Encode(enc, src) == IF enc.name = "quotedPrintable" THEN QPEncode(src) ELSE src

\* encoder.TransferEncodingType()
TransferEncodingType(enc) == enc.label

(***************************************************************************)
(* time.Now().Format(time.RFC1123Z) (goEmail.go:166).  An instant is a     *)
(* record of its calendar fields; zone is the offset in minutes.           *)
(***************************************************************************)
ZeroTime == [weekday |-> 1, day |-> 1, month |-> 1, year |-> 1, hour |-> 0,
             minute |-> 0, second |-> 0, zone |-> 0]
Clocks ==
    {[weekday |-> 5, day |-> 30, month |-> 10, year |-> 2026, hour |-> 18,
      minute |-> 4, second |-> 5, zone |-> 0],
     [weekday |-> 1, day |-> 2, month |-> 1, year |-> 2006, hour |-> 15,
      minute |-> 4, second |-> 5, zone |-> -420]}

Digit(n) == <<"0", "1", "2", "3", "4", "5", "6", "7", "8", "9">>[n + 1]
Pad2(n) == <<Digit((n \div 10) % 10), Digit(n % 10)>>
Pad4(n) == Pad2(n \div 100) \o Pad2(n % 100)
DayNames ==
    <<<<"S", "u", "n">>, <<"M", "o", "n">>, <<"T", "u", "e">>, <<"W", "e", "d">>,
      <<"T", "h", "u">>, <<"F", "r", "i">>, <<"S", "a", "t">>>>
MonthNames ==
    <<<<"J", "a", "n">>, <<"F", "e", "b">>, <<"M", "a", "r">>, <<"A", "p", "r">>,
      <<"M", "a", "y">>, <<"J", "u", "n">>, <<"J", "u", "l">>, <<"A", "u", "g">>,
      <<"S", "e", "p">>, <<"O", "c", "t">>, <<"N", "o", "v">>, <<"D", "e", "c">>>>

\* layout "Mon, 02 Jan 2006 15:04:05 -0700"
RFC1123Z(t) ==
    LET off == IF t.zone < 0 THEN -t.zone ELSE t.zone IN
    DayNames[t.weekday + 1] \o <<",", " ">> \o Pad2(t.day) \o SP
    \o MonthNames[t.month] \o SP \o Pad4(t.year) \o SP
    \o Pad2(t.hour) \o <<":">> \o Pad2(t.minute) \o <<":">> \o Pad2(t.second) \o SP
    \o <<IF t.zone < 0 THEN "-" ELSE "+">> \o Pad2(off \div 60) \o Pad2(off % 60)

(***************************************************************************)
(* FormatMailbox (goEmail.go:42-49).                                       *)
(***************************************************************************)
FormatMailbox(address, name) ==
    IF name = <<>> THEN address
    ELSE name \o <<" ", "<">> \o address \o <<">">>

(***************************************************************************)
(* MessageID (goEmail.go:85-91).                                           *)
(***************************************************************************)
\* fmt prints a []string as its elements separated by spaces, in brackets
GoStrings(list) == <<"[">> \o Join(list, SP) \o <<"]">>

\* fmt's %+v of an emailBody
GoBody(b) ==
    <<"{", "m", "i", "m", "e", "T", "y", "p", "e", ":">> \o b.mimeType
    \o <<" ", "b", "o", "d", "y", "T", "e", "x", "t", ":">> \o b.bodyText
    \o <<"}">>

\* fmt's %+v of a []emailBody
GoBodies(list) ==
    <<"[">> \o Join([i \in 1..Len(list) |-> GoBody(list[i])], SP) \o <<"]">>

\* Sprintf without the unexported field emailBodies
Sprintf_noBodies(e) ==
    <<"&", "{", "T", "o", ":">> \o GoStrings(e.To)
    \o <<" ", "C", "c", ":">> \o GoStrings(e.Cc)
    \o <<" ", "B", "c", "c", ":">> \o GoStrings(e.Bcc)
    \o <<" ", "F", "r", "o", "m", ":">> \o e.From
    \o <<" ", "S", "u", "b", "j", "e", "c", "t", ":">> \o e.Subject
    \o <<" ", "e", "n", "c", "o", "d", "e", "r", ":">> \o e.encoder.repr
    \o <<"}">>

\* fmt.Sprintf("%+v", e) for e *Email
Sprintf(e) ==
    <<"&", "{", "T", "o", ":">> \o GoStrings(e.To)
    \o <<" ", "C", "c", ":">> \o GoStrings(e.Cc)
    \o <<" ", "B", "c", "c", ":">> \o GoStrings(e.Bcc)
    \o <<" ", "F", "r", "o", "m", ":">> \o e.From
    \o <<" ", "S", "u", "b", "j", "e", "c", "t", ":">> \o e.Subject
    \o <<" ", "e", "m", "a", "i", "l", "B", "o", "d", "i", "e", "s", ":">>
    \o GoBodies(e.emailBodies)
    \o <<" ", "e", "n", "c", "o", "d", "e", "r", ":">> \o e.encoder.repr
    \o <<"}">>

RECURSIVE Flat(_)
\* the characters of a string, as the name of what is hashed
Flat(w) ==
    IF w = <<>> THEN ""
    ELSE IF Len(w) = 1 THEN w[1]
    ELSE LET h == Len(w) \div 2
         IN  Flat(SubSeq(w, 1, h)) \o Flat(SubSeq(w, h + 1, Len(w)))

\* fmt.Sprintf("%x", sha1(data)): one atom, 40 hex digits wide, named by the
\* data hashed; SHA-1 is taken to be collision-free
Sha1Hex(data) == <<"sha1(" \o Flat(data) \o ")">>

MessageID(e) == Sha1Hex(Sprintf(e))

(***************************************************************************)
(* formattedEmail (goEmail.go:93-124).  addHeader and addBody are given    *)
(* as the bytes they write to the buffer.                                  *)
(***************************************************************************)
\* addHeader without its guard
addHeader_noGuard(field, value) ==
    foldString(HeaderWidth, field \o <<":", " ">>, value)

addHeader(field, value) ==
    IF value # <<>> THEN foldString(HeaderWidth, field \o <<":", " ">>, value)
    ELSE <<>>

\* addBody with the two headers in the other order
addBody_swapped(boundary, encoder, emailBody) ==
    boundary \o CRLF
    \o addHeader(FieldContentTransferEncoding, TransferEncodingType(encoder))
    \o addHeader(FieldContentType, emailBody.mimeType)
    \o CRLF
    \o Encode(encoder, emailBody.bodyText)
    \o CRLF

addBody(boundary, encoder, emailBody) ==
    boundary \o CRLF
    \o addHeader(FieldContentType, emailBody.mimeType)
    \o addHeader(FieldContentTransferEncoding, TransferEncodingType(encoder))
    \o CRLF
    \o Encode(encoder, emailBody.bodyText)
    \o CRLF

(***************************************************************************)
(* Format (goEmail.go:153-175).                                            *)
(***************************************************************************)
\* boundary := fmt.Sprintf("=_%s", email.MessageID())
Boundary(e) == <<"=", "_">> \o MessageID(e)

Format(e, now) ==
    LET boundary == Boundary(e)
        fBoundary == CRLF \o <<"-", "-">> \o boundary
    IN  addHeader(FieldTo, Join(e.To, <<",", " ">>))
        \o addHeader(FieldCc, Join(e.Cc, <<",", " ">>))
        \o addHeader(FieldBcc, Join(e.Bcc, <<",", " ">>))
        \o addHeader(FieldFrom, e.From)
        \o addHeader(FieldSubject, e.Subject)
        \o addHeader(FieldDate, RFC1123Z(now))
        \o addHeader(FieldContentType, MultipartPrefix \o boundary \o <<"\"">>)
        \o addHeader(FieldMimeVersion, MimeVersion)
        \o Concat([i \in 1..Len(e.emailBodies) |->
                      addBody(fBoundary, e.encoder, e.emailBodies[i])])

(***************************************************************************)
(* The Email and the calls made on it.                                     *)
(***************************************************************************)
Mailboxes ==
    {<<>>,
     FormatMailbox(<<"a", "@", "x", ".", "c", "o", "m">>, <<>>),
     FormatMailbox(<<"b", "@", "x", ".", "c", "o", "m">>, <<"B">>)}
Senders == {<<"b", "@", "x", ".", "c", "o", "m">>}
Subjects == {<<"H", "i">>}
BodyTexts == {<<"a", "=", "b">>}
Errors == {"nil", "550 rejected"}

TextHtml ==
    <<"t", "e", "x", "t", "/", "h", "t", "m", "l", ";", " ",
      "c", "h", "a", "r", "s", "e", "t", "=", "u", "t", "f", "-", "8">>
TextPlain ==
    <<"t", "e", "x", "t", "/", "p", "l", "a", "i", "n", ";", " ",
      "c", "h", "a", "r", "s", "e", "t", "=", "u", "t", "f", "-", "8">>

Items(e) == Len(e.To) + Len(e.Cc) + Len(e.Bcc) + Len(e.emailBodies)

\* What a call leaves in last.  op names Format or Send, and is "" after any
\* other call; out and id are what Format returned and the identifier it used,
\* now what time.Now() gave it; from, to and msg are the arguments of the
\* smtp.SendMail invocation, sends counts these invocations, result is what
\* the transport returned and err what Send returned.
Returned(op) ==
    [op |-> op, now |-> ZeroTime, out |-> <<>>, id |-> <<>>, from |-> <<>>,
     to |-> <<>>, msg |-> <<>>, sends |-> 0, result |-> "nil", err |-> "nil"]

NoArgs == [To |-> <<>>, Cc |-> <<>>, Bcc |-> <<>>, emailBodies |-> <<>>]

\* NewEmail / NewEmailWithEncoder (goEmail.go:23-32)
NewEmailWithEncoder(enc) ==
    [To |-> <<>>, Cc |-> <<>>, Bcc |-> <<>>, From |-> <<>>, Subject |-> <<>>,
     emailBodies |-> <<>>, encoder |-> enc]

NewEmail == NewEmailWithEncoder(QuotedPrintable)

EmailInit ==
    /\ email \in {NewEmail} \cup {NewEmailWithEncoder(enc) : enc \in Encoders}
    /\ last = Returned("")
    /\ args = NoArgs

\* the Email after each mutation
WithRecipient(e, mailbox) == [e EXCEPT !.To = Append(@, mailbox)]
\* WithCc appending to To
WithCc_toTo(e, mailbox) == [e EXCEPT !.To = Append(@, mailbox)]
WithCc(e, mailbox) == [e EXCEPT !.Cc = Append(@, mailbox)]
WithBcc(e, mailbox) == [e EXCEPT !.Bcc = Append(@, mailbox)]
WithBody(e, mimeType, body) ==
    [e EXCEPT !.emailBodies = Append(@, [mimeType |-> mimeType, bodyText |-> body])]

AddRecipient ==
    /\ Items(email) < MaxItems
    /\ \E mailbox \in Mailboxes :
          /\ email' = WithRecipient(email, mailbox)
          /\ args' = [args EXCEPT !.To = Append(@, mailbox)]
    /\ last' = Returned("")
    /\ UNCHANGED foldVars

AddCc ==
    /\ Items(email) < MaxItems
    /\ \E mailbox \in Mailboxes :
          /\ email' = WithCc(email, mailbox)
          /\ args' = [args EXCEPT !.Cc = Append(@, mailbox)]
    /\ last' = Returned("")
    /\ UNCHANGED foldVars

AddBcc ==
    /\ Items(email) < MaxItems
    /\ \E mailbox \in Mailboxes :
          /\ email' = WithBcc(email, mailbox)
          /\ args' = [args EXCEPT !.Bcc = Append(@, mailbox)]
    /\ last' = Returned("")
    /\ UNCHANGED foldVars

\* AddBody called directly, here with the empty mimeType
AddBody ==
    /\ Items(email) < MaxItems
    /\ \E body \in BodyTexts :
          /\ email' = WithBody(email, <<>>, body)
          /\ args' = [args EXCEPT !.emailBodies =
                         Append(@, [mimeType |-> <<>>, bodyText |-> body])]
    /\ last' = Returned("")
    /\ UNCHANGED foldVars

AddHtmlBody ==
    /\ Items(email) < MaxItems
    /\ \E body \in BodyTexts :
          /\ email' = WithBody(email, TextHtml, body)
          /\ args' = [args EXCEPT !.emailBodies =
                         Append(@, [mimeType |-> TextHtml, bodyText |-> body])]
    /\ last' = Returned("")
    /\ UNCHANGED foldVars

AddTextBody ==
    /\ Items(email) < MaxItems
    /\ \E body \in BodyTexts :
          /\ email' = WithBody(email, TextPlain, body)
          /\ args' = [args EXCEPT !.emailBodies =
                         Append(@, [mimeType |-> TextPlain, bodyText |-> body])]
    /\ last' = Returned("")
    /\ UNCHANGED foldVars

\* the caller assigns the exported field From
SetFrom ==
    /\ \E v \in Senders \cup {<<>>} :
          /\ v # email.From
          /\ email' = [email EXCEPT !.From = v]
    /\ last' = Returned("")
    /\ UNCHANGED args
    /\ UNCHANGED foldVars

\* the caller assigns the exported field Subject
SetSubject ==
    /\ \E v \in Subjects \cup {<<>>} :
          /\ v # email.Subject
          /\ email' = [email EXCEPT !.Subject = v]
    /\ last' = Returned("")
    /\ UNCHANGED args
    /\ UNCHANGED foldVars

\* a call of Format; now is what time.Now() returns during it
FormatCall ==
    /\ \E now \in Clocks :
          last' = [Returned("Format") EXCEPT
                      !.now = now,
                      !.id = MessageID(email),
                      !.out = Format(email, now)]
    /\ UNCHANGED <<email, args>>
    /\ UNCHANGED foldVars

\* Send handing the transport the Cc list after the To list
Send_allRecipients ==
    /\ \E now \in Clocks :
          LET msg == Format(email, now) IN
          \E result \in Errors :
              last' = [Returned("Send") EXCEPT
                          !.now = now,
                          !.from = email.From,
                          !.to = email.To \o email.Cc,
                          !.msg = msg,
                          !.sends = 1,
                          !.result = result,
                          !.err = result]
    /\ UNCHANGED <<email, args>>
    /\ UNCHANGED foldVars

\* a call of Send; smtp.SendMail is the transport, result is what it returns
Send ==
    /\ \E now \in Clocks :
          LET msg == Format(email, now) IN
          \E result \in Errors :
              last' = [Returned("Send") EXCEPT
                          !.now = now,
                          !.from = email.From,
                          !.to = email.To,
                          !.msg = msg,
                          !.sends = 1,
                          !.result = result,
                          !.err = result]
    /\ UNCHANGED <<email, args>>
    /\ UNCHANGED foldVars

Init == EmailInit /\ FoldIdle

Next ==
    \/ AddRecipient
    \/ AddCc
    \/ AddBcc
    \/ AddBody
    \/ AddHtmlBody
    \/ AddTextBody
    \/ SetFrom
    \/ SetSubject
    \/ FormatCall
    \/ Send

Spec == Init /\ [][Next]_vars

(***************************************************************************)
(* foldString called on its own with every small prefix, value and width.  *)
(***************************************************************************)
InitFold ==
    /\ email = NewEmail
    /\ last = Returned("")
    /\ args = NoArgs
    /\ FoldCall

NextFold == FoldStep \/ FoldReturn

SpecFold == InitFold /\ [][NextFold]_vars

(***************************************************************************)
(* Reading a folded header back.                                           *)
(***************************************************************************)
\* the physical lines of w: the pieces between CRLFs
Lines(w) ==
    Pieces(w, {j \in 1..(Len(w) - 1) : w[j] = "\r" /\ w[j + 1] = "\n"}, 2, 1)

\* the non-empty space-separated words of w
NonEmptyWords(w) == SelectSeq(Split(w), LAMBDA x : x # <<>>)

RECURSIVE RemoveMarkers(_)
\* w without its continuation markers (CRLF followed by one space)
RemoveMarkers(w) ==
    IF Len(w) < 3 THEN w
    ELSE IF SubSeq(w, 1, 3) = CRLF \o SP THEN RemoveMarkers(SubSeq(w, 4, Len(w)))
    ELSE <<Head(w)>> \o RemoveMarkers(Tail(w))

\* a folded header without its prefix, its continuation markers and its
\* final CRLF
Unfolded(folded, pre) ==
    LET body == SubSeq(folded, Len(pre) + 1, Len(folded))
        open == RemoveMarkers(body)
    IN  SubSeq(open, 1, Len(open) - 2)

\* the physical lines of a folded header, a continuation line without its
\* single leading space
FoldedLines(folded) ==
    LET ls == Lines(folded)
    IN  [i \in 1..(Len(ls) - 1) |->
            IF i > 1 /\ ls[i] # <<>> /\ ls[i][1] = " " THEN Tail(ls[i]) ELSE ls[i]]

(***************************************************************************)
(* Properties of foldString, under SpecFold.                               *)
(***************************************************************************)
\* C7: folding loses nothing: the folded output starts with the prefix and ends
\* with CRLF, and without the prefix, the continuation markers and the final
\* CRLF its non-empty space-separated words are those of the value, in order.
C7_FoldKeepsWords ==
    pc = "done" =>
        /\ Len(ret) >= Len(prefix) + 2
        /\ SubSeq(ret, 1, Len(prefix)) = prefix
        /\ SubSeq(ret, Len(ret) - 1, Len(ret)) = CRLF
        /\ NonEmptyWords(Unfolded(ret, prefix)) = NonEmptyWords(str)

\* a value of several words was folded onto a continuation line
C7_Witness ==
    /\ pc = "done"
    /\ Len(NonEmptyWords(str)) >= 2
    /\ Len(Lines(ret)) >= 3

\* C8: with a prefix shorter than the width, every physical line of the folded
\* output (a continuation line without its leading space) is at most the width
\* long, unless it holds a single word that is itself longer than the width.
C8_LinesWithinWidth ==
    (pc = "done" /\ Len(prefix) < maxLength) =>
        \A i \in DOMAIN FoldedLines(ret) :
            LET line == FoldedLines(ret)[i]
                ws == NonEmptyWords(line)
            IN  \/ StrLen(line) <= maxLength
                \/ (Len(ws) = 1 /\ StrLen(ws[1]) > maxLength)

\* a line without the space foldString writes after its last word
WithoutTrailingSpace(line) ==
    IF line # <<>> /\ line[Len(line)] = " " THEN SubSeq(line, 1, Len(line) - 1)
    ELSE line

\* C8, the space after the last word of each line not counted: every line is
\* within the width unless it holds a single word longer than the width.
C8_LinesWithinWidthButTrailingSpace ==
    (pc = "done" /\ Len(prefix) < maxLength) =>
        \A i \in DOMAIN FoldedLines(ret) :
            LET line == WithoutTrailingSpace(FoldedLines(ret)[i])
                ws == NonEmptyWords(line)
            IN  \/ StrLen(line) <= maxLength
                \/ (Len(ws) = 1 /\ StrLen(ws[1]) > maxLength)

\* C9: the loop starts a continuation line before a word exactly when the
\* current line (the line buffer, which holds the space written after each
\* word) with that word and one space added would be longer than the width: a
\* word that fits is appended to the line, a word that does not fit ends the
\* line with CRLF and one space and begins the next line with just that word.
C9_FoldsExactlyWhenTooLong ==
    [][(pc = "loop" /\ words # <<>> /\ words' = Tail(words)) =>
          LET word == Head(words)
              tooLong == StrLen(lineBuffer) + StrLen(word) + 1 > maxLength
          IN  /\ tooLong =>
                    /\ foldedBuffer' = foldedBuffer \o lineBuffer \o CRLF \o SP
                    /\ lineBuffer' = word \o SP
              /\ ~tooLong =>
                    /\ foldedBuffer' = foldedBuffer
                    /\ lineBuffer' = lineBuffer \o word \o SP]_vars

\* the loop has folded once and later kept a word on the continuation line
C9_Witness ==
    /\ pc = "loop"
    /\ foldedBuffer # <<>>
    /\ Len(NonEmptyWords(lineBuffer)) >= 2

(***************************************************************************)
(* Reading a formatted message back.                                       *)
(***************************************************************************)
\* index of the first empty physical line, or one past the last line
HeaderEnd(ls) ==
    IF \E i \in 1..Len(ls) : ls[i] = <<>>
    THEN Min({i \in 1..Len(ls) : ls[i] = <<>>})
    ELSE Len(ls) + 1

\* the physical lines of the header section: those before the first empty line
HeaderLines(out) == LET ls == Lines(out) IN SubSeq(ls, 1, HeaderEnd(ls) - 1)

\* the physical lines from the first empty line on
BodyLines(out) == LET ls == Lines(out) IN SubSeq(ls, HeaderEnd(ls), Len(ls))

IsContinuation(line) == line # <<>> /\ line[1] = " "

\* the logical header lines of a block of physical lines, each as its sequence
\* of non-empty words: a line and the continuation lines that follow it
Logical(ls) ==
    LET starts == SelectSeq([i \in 1..Len(ls) |-> i],
                            LAMBDA i : ~IsContinuation(ls[i]))
    IN  [k \in 1..Len(starts) |->
            LET s == starts[k]
                e == IF k < Len(starts) THEN starts[k + 1] - 1 ELSE Len(ls)
            IN  Concat([j \in 1..(e - s + 1) |-> NonEmptyWords(ls[s + j - 1])])]

\* a logical header line with this field name and this value
HeaderWords(field, value) == <<field \o <<":">>>> \o NonEmptyWords(value)

\* the logical header lines for a list of <<field, value>> pairs: one for each
\* pair with a non-empty value, in the order of the list
HeadersFor(pairs) ==
    LET present == SelectSeq(pairs, LAMBDA p : p[2] # <<>>)
    IN  [k \in 1..Len(present) |-> HeaderWords(present[k][1], present[k][2])]

\* the boundary token declared in the top-level Content-Type header
DeclaredBoundary(out) ==
    LET ct == SelectSeq(Logical(HeaderLines(out)),
                        LAMBDA h : h # <<>> /\ h[1] = FieldContentType \o <<":">>)
    IN  IF ct = <<>> THEN <<>>
        ELSE IF Len(ct[1]) < 3 THEN <<>>
        ELSE IF Len(ct[1][3]) < 12 THEN <<>>
        ELSE SubSeq(ct[1][3], 11, Len(ct[1][3]) - 1)

Malformed == [marker |-> <<"?">>, headers |-> <<>>, payload |-> <<>>]

RECURSIVE ParseParts(_)
\* the parts in the lines after the header section: each an empty line (the
\* CRLF that opens the marker), the marker line, header lines, a blank line
\* and one line of payload; an empty line ends the message
ParseParts(rest) ==
    IF rest = << <<>> >> THEN <<>>
    ELSE IF Len(rest) < 5 THEN <<Malformed>>
    ELSE IF rest[1] # <<>> THEN <<Malformed>>
    ELSE LET blanks == {i \in 3..(Len(rest) - 2) : rest[i] = <<>>}
         IN  IF blanks = {} THEN <<Malformed>>
             ELSE LET k == Min(blanks)
                  IN  <<[marker   |-> rest[2],
                         headers  |-> Logical(SubSeq(rest, 3, k - 1)),
                         payload  |-> rest[k + 1]]>>
                      \o ParseParts(SubSeq(rest, k + 2, Len(rest)))

(***************************************************************************)
(* Properties of the Email, under Spec.                                    *)
(***************************************************************************)
\* C1: the header section Format writes holds exactly the headers with a
\* non-empty value, in the order To, Cc, Bcc, From, Subject, Date,
\* Content-Type, MIME-Version, the value of To, Cc and Bcc being the list
\* joined with ", "; Date, Content-Type and MIME-Version are always there.
C1_HeaderOrderAndPresence ==
    last.op = "Format" =>
        LET hs == Logical(HeaderLines(last.out))
            names == [k \in 1..Len(hs) |-> hs[k][1]]
        IN  /\ hs = HeadersFor(<<
                   <<FieldTo, Join(email.To, <<",", " ">>)>>,
                   <<FieldCc, Join(email.Cc, <<",", " ">>)>>,
                   <<FieldBcc, Join(email.Bcc, <<",", " ">>)>>,
                   <<FieldFrom, email.From>>,
                   <<FieldSubject, email.Subject>>,
                   <<FieldDate, RFC1123Z(last.now)>>,
                   <<FieldContentType, MultipartPrefix \o <<"=", "_">> \o last.id \o <<"\"">>>>,
                   <<FieldMimeVersion, MimeVersion>> >>)
            /\ Len(names) >= 3
            /\ SubSeq(names, Len(names) - 2, Len(names)) =
                   <<FieldDate \o <<":">>,
                     FieldContentType \o <<":">>,
                     FieldMimeVersion \o <<":">>>>

\* Format ran on a message with two recipients and a sender, and with no Cc
\* and no subject
C1_Witness ==
    /\ last.op = "Format"
    /\ Len(email.To) = 2
    /\ email.To[1] # <<>>
    /\ email.Cc = <<>>
    /\ email.From # <<>>
    /\ email.Subject = <<>>

\* C2: after the headers Format writes one part for each body added, in the
\* order of the calls; each part is the marker line (CRLF, "--" and the
\* boundary token "=_<identifier>" declared in the top-level Content-Type
\* header), a Content-Type header with the part's mimeType unless that is
\* empty, a Content-Transfer-Encoding header with the encoder's label, a blank
\* line, the encoder's output for the body text, and CRLF.
C2_PartsInCallOrder ==
    last.op = "Format" =>
        LET token == DeclaredBoundary(last.out)
            hs == Logical(HeaderLines(last.out))
        IN  /\ token = <<"=", "_">> \o last.id
            /\ hs # <<>>
            /\ hs[Len(hs)][1] = FieldMimeVersion \o <<":">>
            /\ ParseParts(BodyLines(last.out)) =
                   [i \in 1..Len(args.emailBodies) |->
                       [marker  |-> <<"-", "-">> \o token,
                        headers |-> HeadersFor(<<
                            <<FieldContentType, args.emailBodies[i].mimeType>>,
                            <<FieldContentTransferEncoding,
                              TransferEncodingType(email.encoder)>> >>),
                        payload |-> Encode(email.encoder,
                                           args.emailBodies[i].bodyText)]]

\* Format ran on a message with two different bodies, the first without a
\* mimeType
C2_Witness ==
    /\ last.op = "Format"
    /\ Len(args.emailBodies) = 2
    /\ args.emailBodies[1].mimeType = <<>>
    /\ args.emailBodies[2].mimeType # <<>>

\* C3: To, Cc, Bcc and the body parts are always the arguments their add
\* operation was called with, in call order; a call that adds extends its own
\* list by one element at the end and changes nothing else; Format and Send
\* change no field.
C3_AppendOnly ==
    /\ [](/\ email.To = args.To
          /\ email.Cc = args.Cc
          /\ email.Bcc = args.Bcc
          /\ email.emailBodies = args.emailBodies)
    /\ [][/\ last'.op \in {"Format", "Send"} => email' = email
          /\ args' # args =>
                \E f \in {"To", "Cc", "Bcc", "emailBodies"} :
                    /\ Len(args'[f]) = Len(args[f]) + 1
                    /\ SubSeq(args'[f], 1, Len(args[f])) = args[f]
                    /\ args' = [args EXCEPT ![f] = args'[f]]
                    /\ email' = [email EXCEPT ![f] = Append(email[f], args'[f][Len(args'[f])])]
         ]_vars

\* Send ran after two different recipients were added
C3_Witness ==
    /\ last.op = "Send"
    /\ Len(args.To) = 2
    /\ args.To[1] # args.To[2]

\* C4: a Send call invokes the transport once, with the message's From, its To
\* list and the output of Format on the message as it is, and returns what the
\* transport returned.
C4_SendDelegatesOnce ==
    last.op = "Send" =>
        /\ last.sends = 1
        /\ last.from = email.From
        /\ last.to = email.To
        /\ last.msg = Format(email, last.now)
        /\ last.err = last.result

\* Send ran on a message with a recipient and a Cc, and the transport failed
C4_Witness ==
    /\ last.op = "Send"
    /\ last.result # "nil"
    /\ email.To # <<>>
    /\ email.Cc # <<>>

\* C6: a To, From or Subject header whose value fits on one line is written
\* as the field name, ": ", the value and CRLF, with nothing between the value
\* and the CRLF.
C6_HeaderLineExact ==
    last.op = "Format" =>
        \A p \in {<<FieldTo, Join(email.To, <<",", " ">>)>>,
                  <<FieldFrom, email.From>>,
                  <<FieldSubject, email.Subject>>} :
            (p[2] # <<>> /\ StrLen(p[1]) + 2 + StrLen(p[2]) + 1 <= HeaderWidth) =>
                \E i \in DOMAIN HeaderLines(last.out) :
                    HeaderLines(last.out)[i] = p[1] \o <<":", " ">> \o p[2]

\* C10 as stated: every mutation changes the identifier.
C10_EveryMutationChangesId ==
    [][email' # email => MessageID(email') # MessageID(email)]_vars

\* appending the empty string to an empty To, Cc or Bcc list
AppendsEmptyToEmpty ==
    \E f \in {"To", "Cc", "Bcc"} :
        /\ email[f] = <<>>
        /\ email' = [email EXCEPT ![f] = << <<>> >>]

\* C10, amended: every mutation changes the serialization that is hashed, and
\* so the identifier and the boundary token, except appending the empty
\* string to an empty To, Cc or Bcc list, which leaves them as they were.
C10_MutationChangesIdUnlessEmptyAppend ==
    [][email' # email =>
          IF AppendsEmptyToEmpty
          THEN /\ Sprintf(email') = Sprintf(email)
               /\ MessageID(email') = MessageID(email)
          ELSE /\ Sprintf(email') # Sprintf(email)
               /\ Boundary(email') # Boundary(email)]_vars

\* a non-empty Cc and a body were added and From was set
C10_Witness ==
    /\ Len(email.Cc) = 1
    /\ email.Cc[1] # <<>>
    /\ Len(email.emailBodies) = 1
    /\ email.From # <<>>

====
